---------------------------- MODULE Spec2Model ----------------------------
(***************************************************************************)
(* Model of neurax.modules.cell.Cell (src/neurax/modules/cell.py): the     *)
(* object built by __init__, and its operations init_morph,                *)
(* init_branch_conds and step.                                             *)
(*                                                                         *)
(* Arrays keep the source's 0-based indices: an array of length n is a     *)
(* function with domain 0..n-1.  Real numbers are exact rationals times a  *)
(* power of ten, <<n, d, e>> = (n/d) * 10^e; the source computes them in   *)
(* floating point, whose rounding is not modelled.                         *)
(***************************************************************************)
EXTENDS Integers, Sequences, FiniteSets, TLC

\* ------------------------------------------------------------------ bounds
MaxBranches == 3
MaxSeg == 2
MaxVal == 2
MaxChannels == 2
MaxCalls == 2

\* --------------------------------------------------------------- constants
\* max_num_kids=4, the capacity of the sibling table.
MaxNumKids == 4
\* 10 ** 7, the conversion (S / cm / um) -> (mS / cm^2), as a power of ten.
UnitExp == 7

\* The placeholder held by a field of the model that the object does not
\* have (its name is not in self.assigned).
Unset == <<>>
\* Python's None as the value of an array attribute: no array has index -1.
None == [i \in {-1} |-> <<0, 1, 0>>]
\* Variant of IsNone with the test negated (x is not None).
IsNone_negated(x) == DOMAIN x # {-1}

\* x is None
IsNone(x) == DOMAIN x = {-1}

\* ------------------------------------------------------------ exact reals
RECURSIVE Gcd(_, _)
Gcd(a, b) == IF b = 0 THEN a ELSE Gcd(b, a % b)

RECURSIVE Pow10(_)
Pow10(k) == IF k = 0 THEN 1 ELSE 10 * Pow10(k - 1)

Zero == <<0, 1, 0>>

\* (n/d) * 10^e in lowest terms; every zero is Zero.
Q(n, d, e) == IF n = 0 THEN Zero ELSE <<n \div Gcd(n, d), d \div Gcd(n, d), e>>

\* x + y.
Add(x, y) ==
    IF x = Zero THEN y
    ELSE IF y = Zero THEN x
    ELSE LET e  == IF x[3] < y[3] THEN x[3] ELSE y[3]
             xn == x[1] * Pow10(x[3] - e)
             yn == y[1] * Pow10(y[3] - e)
             l  == (x[2] * y[2]) \div Gcd(x[2], y[2])
         IN  Q(xn * (l \div x[2]) + yn * (l \div y[2]), l, e)

\* x * 10 ** k.
Times10Pow(x, k) == IF x = Zero THEN Zero ELSE <<x[1], x[2], x[3] + k>>

\* The sum of f[i] over the finite set S.
RECURSIVE SumOver(_, _)
SumOver(S, f) ==
    IF S = {} THEN Zero
    ELSE LET i == CHOOSE j \in S : TRUE
         IN  Add(f[i], SumOver(S \ {i}, f))

\* ------------------------------------------------------------ array helpers
\* jnp.reshape(flat, (nb, ns)): row-major, element [b][s] is flat[b * ns + s].
Reshape(flat, nb, ns) == [b \in 0..(nb - 1) |-> [s \in 0..(ns - 1) |-> flat[b * ns + s]]]

\* m.flatten(order="C") of an (nb, ns) array.
FlattenC(m, nb, ns) == [k \in 0..(nb * ns - 1) |-> m[k \div ns][k % ns]]

\* Variant of ConcatZero with the zero after the array instead of before it.
ConcatZero_appended(arr, n) == [i \in 0..n |-> IF i = n THEN <<0, 1, 0>> ELSE arr[i]]

\* jnp.concatenate([jnp.asarray([0.0]), arr]) for arr of length n.
ConcatZero(arr, n) == [i \in 0..n |-> IF i = 0 THEN Zero ELSE arr[i - 1]]

\* The sorted sequence of the elements of a finite set of integers.
RECURSIVE SortedSeq(_)
SortedSeq(S) ==
    IF S = {} THEN <<>>
    ELSE LET m == CHOOSE x \in S : \A y \in S : x <= y
         IN  <<m>> \o SortedSeq(S \ {m})

\* ------------------------------------------------- conductance formula
\* Variant of compute_coupling_cond whose last division is by l2.
compute_coupling_cond_swapped(rad1, rad2, r_a, l1, l2) ==
    Q(rad1 * rad2 * rad2, r_a * (rad2 * rad2 * l1 + rad1 * rad1 * l2) * l2, 0)

\* compute_coupling_cond(rad1, rad2, r_a, l1, l2) =
\*   rad1 * rad2 ** 2 / r_a / (rad2 ** 2 * l1 + rad1 ** 2 * l2) / l1
compute_coupling_cond(rad1, rad2, r_a, l1, l2) ==
    Q(rad1 * rad2 * rad2, r_a * (rad2 * rad2 * l1 + rad1 * rad1 * l2) * l1, 0)

\* ------------------------------------------------------------ parents arrays
\* The branch reached from b after k parent hops (-1 once past a root).
RECURSIVE Hop(_, _, _)
Hop(p, b, k) == IF k = 0 \/ b = -1 THEN b ELSE Hop(p, p[b], k - 1)

\* _compute_num_kids(parents): the number of children of every branch.
NumKids(p, nb) == [b \in 0..(nb - 1) |-> Cardinality({c \in 1..(nb - 1) : p[c] = b})]

\* A parents array that describes a tree rooted at branch 0 within the
\* capacity of the sibling table.
WellFormed(p, nb) ==
    /\ p[0] = -1
    /\ \A b \in 1..(nb - 1) : p[b] \in 0..(nb - 1) /\ \E k \in 1..(nb - 1) : Hop(p, b, k) = 0
    /\ \A b \in 0..(nb - 1) : NumKids(p, nb)[b] <= MaxNumKids

\* The parents arrays of the model: branch 0 is unparented, every other
\* branch names a branch of the cell (itself and cycles included).
ParentArrays(nb) ==
    {p \in [0..(nb - 1) -> -1..(nb - 1)] : p[0] = -1 /\ \A b \in 1..(nb - 1) : p[b] >= 0}

\* compute_levels(parents): root level 0, each branch its parent's level + 1.
RECURSIVE Level(_, _)
Level(p, b) == IF p[b] = -1 THEN 0 ELSE Level(p, p[b]) + 1

Levels(p, nb) == [b \in 0..(nb - 1) |-> Level(p, b)]

\* compute_branches_in_level(levels): the branches of each level, in branch
\* index order, root level first.
BranchesInLevel(lv, nb) ==
    LET top == CHOOSE m \in 0..(nb - 1) :
                   (\E b \in 0..(nb - 1) : lv[b] = m) /\ (\A b \in 0..(nb - 1) : lv[b] <= m)
    IN  [l \in 1..(top + 1) |-> SortedSeq({b \in 0..(nb - 1) : lv[b] = l - 1})]

\* [jnp.unique(self.parents[c]) for c in self.branches_in_each_level]
ParentsInLevel(p, bil) ==
    [l \in 1..Len(bil) |-> SortedSeq({p[bil[l][i]] : i \in 1..Len(bil[l])})]

\* _compute_index_of_kid(parents): the ordinal of a branch among the children
\* of its parent.
IndexOfKid(p, nb) ==
    [b \in 0..(nb - 1) |-> Cardinality({c \in 1..(nb - 1) : c < b /\ p[c] = p[b]})]

\* cum_indizes_of_kids(ind_of_kids_in_each_level, max_num_kids, reset_at): in
\* every level the slot of a child in a table of width max_num_kids, a new
\* row starting at every child whose ordinal is in reset_at.
CumIndizesOfKids(inds, max_num_kids, reset_at) ==
    [l \in 1..Len(inds) |->
        [i \in 1..Len(inds[l]) |->
            (Cardinality({j \in 1..i : inds[l][j] \in reset_at}) - 1) * max_num_kids
                + inds[l][i]]]

\* ------------------------------------------------------------ Branch inputs
\* The Branch objects handed to the constructor carry their intra-branch
\* conductances: g(i -> i+1) forward, g(i+1 -> i) backward, times 10 ** 7.
BranchCondsFwd(geom, nb, ns) ==
    LET rad == Reshape(geom.radius, nb, ns)
        len == Reshape(geom.length, nb, ns)
        r_a == Reshape(geom.axial_resistivity, nb, ns)
    IN  [b \in 0..(nb - 1) |-> [i \in 0..(ns - 2) |->
            Times10Pow(compute_coupling_cond(rad[b][i], rad[b][i + 1], r_a[b][i],
                                             len[b][i], len[b][i + 1]), UnitExp)]]

BranchCondsBwd(geom, nb, ns) ==
    LET rad == Reshape(geom.radius, nb, ns)
        len == Reshape(geom.length, nb, ns)
        r_a == Reshape(geom.axial_resistivity, nb, ns)
    IN  [b \in 0..(nb - 1) |-> [i \in 0..(ns - 2) |->
            Times10Pow(compute_coupling_cond(rad[b][i + 1], rad[b][i], r_a[b][i + 1],
                                             len[b][i + 1], len[b][i]), UnitExp)]]

\* The summed coupling conductance of a Branch: per compartment, the
\* conductances towards its neighbours in the branch.
BranchSummedConds(geom, nb, ns) ==
    LET fwd == BranchCondsFwd(geom, nb, ns)
        bwd == BranchCondsBwd(geom, nb, ns)
    IN  [b \in 0..(nb - 1) |-> [s \in 0..(ns - 1) |->
            Add(IF s < ns - 1 THEN fwd[b][s] ELSE Zero,
                IF s > 0 THEN bwd[b][s - 1] ELSE Zero)]]

\* ---------------------------------------------------------------- the Cell
VARIABLES
    self,      \* the fields of the Cell object; self.assigned is the set of
               \* attribute names the object has
    op,        \* the last operation called on it
    outcome,   \* what that operation returned or raised
    pre,       \* initialized_morph / initialized_conds when it was called
    solver,    \* whether the last operation invoked step_voltages, and what
               \* the object looked like at that moment
    ncalls     \* init_branch_conds calls so far

vars == <<self, op, outcome, pre, solver, ncalls>>

Ok == [status |-> "ok", keys |-> {}, voltages |-> <<>>]
Raised(e) == [status |-> e, keys |-> {}, voltages |-> <<>>]
NotCalled == [called |-> FALSE, morph |-> FALSE, conds |-> FALSE, args |-> {}]
Flags(obj) == [morph |-> obj.initialized_morph, conds |-> obj.initialized_conds]

\* The attributes Cell.__init__ assigns.
InitAttrs ==
    { "branches", "nseg", "nbranches", "parents", "nodes", "params",
      "coupling_conds_bwd", "coupling_conds_fwd", "summed_coupling_conds",
      "initialized_morph", "initialized_conds" }

\* The attributes init_morph assigns, in the order it assigns them.
MorphAttrs ==
    << "num_kids", "levels", "branches_in_each_level", "parents_in_each_level",
       "kid_inds_in_each_level" >>

\* Variant of NewCell that returns the object with initialized_morph set.
NewCell_eager(nb, ns, nch, p, geom) ==
    [ assigned |-> InitAttrs,
      nseg |-> ns, nbranches |-> nb, parents |-> p, nchannels |-> nch,
      params |-> geom,
      coupling_conds_bwd |-> BranchCondsBwd(geom, nb, ns),
      coupling_conds_fwd |-> BranchCondsFwd(geom, nb, ns),
      summed_coupling_conds |-> BranchSummedConds(geom, nb, ns),
      initialized_morph |-> TRUE,
      initialized_conds |-> FALSE,
      num_kids |-> Unset, levels |-> Unset, branches_in_each_level |-> Unset,
      parents_in_each_level |-> Unset, kid_inds_in_each_level |-> Unset,
      branch_conds_fwd |-> Unset, branch_conds_bwd |-> Unset ]

\* Cell.__init__(branches, parents), with self.params as filled by
\* _append_to_params_and_state(branches) and nchannels the length of
\* branches[0].compartments[0].channels.  It does not look into parents.
NewCell(nb, ns, nch, p, geom) ==
    [ assigned |-> InitAttrs,
      nseg |-> ns, nbranches |-> nb, parents |-> p, nchannels |-> nch,
      params |-> geom,
      coupling_conds_bwd |-> BranchCondsBwd(geom, nb, ns),
      coupling_conds_fwd |-> BranchCondsFwd(geom, nb, ns),
      summed_coupling_conds |-> BranchSummedConds(geom, nb, ns),
      initialized_morph |-> FALSE,
      initialized_conds |-> FALSE,
      num_kids |-> Unset, levels |-> Unset, branches_in_each_level |-> Unset,
      parents_in_each_level |-> Unset, kid_inds_in_each_level |-> Unset,
      branch_conds_fwd |-> Unset, branch_conds_bwd |-> Unset ]

\* The geometries of the model: every compartment has radius, length and
\* axial resistivity 1, except at most one compartment, which takes any
\* values in 1..MaxVal.
Geometries(n) ==
    { [ radius            |-> [i \in 0..(n - 1) |-> IF i = k THEN t[1] ELSE 1],
        length            |-> [i \in 0..(n - 1) |-> IF i = k THEN t[2] ELSE 1],
        axial_resistivity |-> [i \in 0..(n - 1) |-> IF i = k THEN t[3] ELSE 1] ]
      : k \in 0..(n - 1), t \in (1..MaxVal) \X (1..MaxVal) \X (1..MaxVal) }

Uniform(geom, n) ==
    \A i \in 0..(n - 1) :
        geom.radius[i] = 1 /\ geom.length[i] = 1 /\ geom.axial_resistivity[i] = 1

\* The constructor's inputs: trees with one channel and any geometry of the
\* model, and any parents array and channel count with the uniform geometry.
Init ==
    \E nb \in 1..MaxBranches, ns \in 1..MaxSeg, nch \in 1..MaxChannels :
        \E p \in ParentArrays(nb), geom \in Geometries(nb * ns) :
            /\ (WellFormed(p, nb) /\ nch = 1) \/ Uniform(geom, nb * ns)
            /\ self = NewCell(nb, ns, nch, p, geom)
            /\ op = "__init__"
            /\ outcome = Ok
            /\ pre = [morph |-> FALSE, conds |-> FALSE]
            /\ solver = NotCalled
            /\ ncalls = 0

\* --------------------------------------------------------------- init_morph
\* The index build rejects a parents array that is not a tree (spec 4.1, 7:
\* a structural error, fatal at index-build time); compute_levels is the
\* first helper that walks the parent chains.
compute_levels_raises(p, nb) == ~WellFormed(p, nb)

\* The object after init_morph() ran to its end.
MorphBuilt(obj) ==
    LET p   == obj.parents
        nb  == obj.nbranches
        lv  == Levels(p, nb)
        bil == BranchesInLevel(lv, nb)
        iok == IndexOfKid(p, nb)
        inds == [l \in 1..Len(bil) |-> [i \in 1..Len(bil[l]) |-> iok[bil[l][i]]]]
    IN  [obj EXCEPT
            !.assigned = @ \cup {MorphAttrs[i] : i \in 1..Len(MorphAttrs)},
            !.num_kids = NumKids(p, nb),
            !.levels = lv,
            !.branches_in_each_level = bil,
            !.parents_in_each_level = ParentsInLevel(p, bil),
            !.kid_inds_in_each_level = CumIndizesOfKids(inds, MaxNumKids, {0}),
            !.initialized_morph = TRUE]

\* Cell.init_morph()
InitMorph ==
    /\ op' = "init_morph"
    /\ pre' = Flags(self)
    /\ solver' = NotCalled
    /\ IF compute_levels_raises(self.parents, self.nbranches)
       THEN /\ self' = [self EXCEPT !.assigned = @ \cup {"num_kids"},
                                    !.num_kids = NumKids(self.parents, self.nbranches)]
            /\ outcome' = Raised("StructuralError")
       ELSE /\ self' = MorphBuilt(self)
            /\ outcome' = Ok
    /\ UNCHANGED ncalls

\* -------------------------------------------------------- init_branch_conds
\* Variant of AtAdd that overwrites: arr.at[b, s].set(v)
AtSet(m, b, s, v) == [m EXCEPT ![b][s] = v]

\* arr.at[b, s].add(v)
AtAdd(m, b, s, v) == [m EXCEPT ![b][s] = Add(@, v)]

\* Variant of JunctionArrays without the unit conversion of the forward
\* conductances (line 102).
JunctionArrays_unscaled_fwd(obj) ==
    LET nb == obj.nbranches
        ns == obj.nseg
        radiuses == Reshape(obj.params.radius, nb, ns)
        lengths == Reshape(obj.params.length, nb, ns)
        axial_resistivity == Reshape(obj.params.axial_resistivity, nb, ns)
        J == 0..(nb - 2)
        rad1 == [j \in J |-> radiuses[j + 1][ns - 1]]
        rad2 == [j \in J |-> radiuses[obj.parents[j + 1]][0]]
        l1 == [j \in J |-> lengths[j + 1][ns - 1]]
        l2 == [j \in J |-> lengths[obj.parents[j + 1]][0]]
        r_a1 == [j \in J |-> axial_resistivity[j + 1][ns - 1]]
        r_a2 == [j \in J |-> axial_resistivity[obj.parents[j + 1]][0]]
    IN  [ bwd |-> [j \in J |-> Times10Pow(
                      compute_coupling_cond(rad2[j], rad1[j], r_a1[j], l2[j], l1[j]),
                      UnitExp)],
          fwd |-> [j \in J |->
                      compute_coupling_cond(rad1[j], rad2[j], r_a2[j], l1[j], l2[j])] ]

\* The junction conductances of lines 92-103, entry j for branch j + 1.
JunctionArrays(obj) ==
    LET nb == obj.nbranches
        ns == obj.nseg
        radiuses == Reshape(obj.params.radius, nb, ns)
        lengths == Reshape(obj.params.length, nb, ns)
        axial_resistivity == Reshape(obj.params.axial_resistivity, nb, ns)
        J == 0..(nb - 2)
        rad1 == [j \in J |-> radiuses[j + 1][ns - 1]]
        rad2 == [j \in J |-> radiuses[obj.parents[j + 1]][0]]
        l1 == [j \in J |-> lengths[j + 1][ns - 1]]
        l2 == [j \in J |-> lengths[obj.parents[j + 1]][0]]
        r_a1 == [j \in J |-> axial_resistivity[j + 1][ns - 1]]
        r_a2 == [j \in J |-> axial_resistivity[obj.parents[j + 1]][0]]
    IN  [ bwd |-> [j \in J |-> Times10Pow(
                      compute_coupling_cond(rad2[j], rad1[j], r_a1[j], l2[j], l1[j]),
                      UnitExp)],
          fwd |-> [j \in J |-> Times10Pow(
                      compute_coupling_cond(rad1[j], rad2[j], r_a2[j], l1[j], l2[j]),
                      UnitExp)] ]

\* for b in range(from, nbranches): the two .at[...].add(...) of the loop.
RECURSIVE SumJunctions(_, _, _, _)
SumJunctions(summed, obj, ja, b) ==
    IF b >= obj.nbranches THEN summed
    ELSE SumJunctions(
             AtAdd(AtAdd(summed, b, obj.nseg - 1, ja.fwd[b - 1]),
                   obj.parents[b], 0, ja.bwd[b - 1]),
             obj, ja, b + 1)

\* The object after init_branch_conds(); no line of it reads initialized_conds.
CondsBuilt(obj) ==
    LET ja == JunctionArrays(obj)
    IN  [obj EXCEPT
            !.assigned = @ \cup {"branch_conds_fwd", "branch_conds_bwd"},
            !.summed_coupling_conds = SumJunctions(@, obj, ja, 1),
            !.branch_conds_fwd = ConcatZero(ja.fwd, obj.nbranches - 1),
            !.branch_conds_bwd = ConcatZero(ja.bwd, obj.nbranches - 1),
            !.initialized_conds = TRUE]

\* Cell.init_branch_conds()
InitBranchConds ==
    /\ ncalls < MaxCalls
    /\ ncalls' = ncalls + 1
    /\ op' = "init_branch_conds"
    /\ pre' = Flags(self)
    /\ solver' = NotCalled
    /\ self' = CondsBuilt(self)
    /\ outcome' = Ok

\* --------------------------------------------------------------------- step
\* Variant of Readable in which __getattr__ answers for every name.
Readable_any(obj, key) == TRUE

\* Reading obj.key: an attribute the object has is found; for any other name
\* Python calls __getattr__, which asserts key == "branch".
Readable(obj, key) == key \in obj.assigned \/ key = "branch"

\* The state key of the i-th channel.
ChannelKey(i) == "state_" \o ToString(i)

\* The keys of the full state u of a cell: the voltages and the states of
\* all its channels.
StateKeys(obj) == {"voltages"} \cup {ChannelKey(i) : i \in 1..obj.nchannels}

\* u["voltages"]: one value per compartment, here the compartment's index.
InputVoltages(obj) == [k \in 0..(obj.nbranches * obj.nseg - 1) |-> k]

\* step_channels(u, dt, channels, params)[0]: the new channel states, one
\* mapping per channel of the list; here the keys of each mapping.
step_channels(obj) == [i \in 1..obj.nchannels |-> {ChannelKey(i)}]

\* step_voltages(voltages, ...): the implicit solve, abstracted to one new
\* value per compartment: -1 - v stands for the updated value of the
\* compartment whose voltage was v.
step_voltages(voltages, nb, ns) ==
    [b \in 0..(nb - 1) |-> [s \in 0..(ns - 1) |-> -1 - voltages[b][s]]]

\* The attributes step passes to step_voltages that __init__ does not assign,
\* in the order the call reads them.
SolverArgs ==
    << "branch_conds_fwd", "branch_conds_bwd", "kid_inds_in_each_level",
       "parents_in_each_level", "branches_in_each_level" >>

\* Cell.step(u, dt, i_inds, i_current)
Step ==
    /\ op' = "step"
    /\ pre' = Flags(self)
    /\ UNCHANGED ncalls
    /\ IF ~Readable(self, "branch_conds_fwd")
       THEN \* line 140 raises in __getattr__
            /\ self' = self
            /\ solver' = NotCalled
            /\ outcome' = Raised("AssertionError")
       ELSE LET obj == IF IsNone(self.branch_conds_fwd) THEN CondsBuilt(self) ELSE self
                nb  == obj.nbranches
                ns  == obj.nseg
                new_channel_states == step_channels(obj)
                new_voltages ==
                    step_voltages(Reshape(InputVoltages(obj), nb, ns), nb, ns)
            IN  /\ self' = obj
                /\ IF \E i \in 1..Len(SolverArgs) : ~Readable(obj, SolverArgs[i])
                   THEN \* building the arguments of line 155 raises
                        /\ solver' = NotCalled
                        /\ outcome' = Raised("AssertionError")
                   ELSE /\ solver' =
                               [ called |-> TRUE,
                                 morph |-> obj.initialized_morph,
                                 conds |-> obj.initialized_conds,
                                 args |-> {SolverArgs[i] : i \in 1..Len(SolverArgs)}
                                              \cap obj.assigned ]
                        /\ outcome' =
                               [ status |-> "ok",
                                 keys |-> new_channel_states[1] \cup {"voltages"},
                                 voltages |-> FlattenC(new_voltages, nb, ns) ]

Next == InitMorph \/ InitBranchConds \/ Step

Spec == Init /\ [][Next]_vars

\* ------------------------------------------------------ terms of the claims
\* The object as the constructor returned it.
Fresh == NewCell(self.nbranches, self.nseg, self.nchannels, self.parents, self.params)

NonRoot == 1..(self.nbranches - 1)
Children(b) == {c \in NonRoot : self.parents[c] = b}
IsTree == WellFormed(self.parents, self.nbranches)

\* Radius, length and axial resistivity of compartment s of branch b.
Comp(b, s) ==
    [ radius |-> self.params.radius[b * self.nseg + s],
      length |-> self.params.length[b * self.nseg + s],
      r_a    |-> self.params.axial_resistivity[b * self.nseg + s] ]

FirstOf(b) == Comp(b, 0)
LastOf(b) == Comp(b, self.nseg - 1)

\* g(a -> b) = radius_a * radius_b^2 / r_a
\*             / (radius_b^2 * length_a + radius_a^2 * length_b) / length_a
g(radius_a, length_a, r_a, radius_b, length_b) ==
    Q(radius_a * radius_b * radius_b,
      r_a * (radius_b * radius_b * length_a + radius_a * radius_a * length_b) * length_a,
      0)

\* g(a -> b) with radius_a, length_a and r_a all those of compartment a.
gFrom(a, b) == g(a.radius, a.length, a.r_a, b.radius, b.length)

\* ----------------------------------------------------------------------- C1
\* C1 (as claimed): a step called while initialized_conds is False runs
\* init_branch_conds itself and then reaches the voltage solver instead of
\* failing.
C1_StepInitializesLazily ==
    (op = "step" /\ ~pre.conds) =>
        /\ self.initialized_conds
        /\ solver.called /\ solver.conds
        /\ outcome.status = "ok"

\* ----------------------------------------------------------------------- C2
\* C2 (as claimed): after any number n >= 1 of init_branch_conds calls the
\* summed conductances and the junction conductances are those after exactly
\* one call, and after any number of init_morph calls the morphology tables
\* are those after one call.
C2_InitIdempotent ==
    /\ ncalls >= 1 =>
          /\ self.summed_coupling_conds = CondsBuilt(Fresh).summed_coupling_conds
          /\ self.branch_conds_fwd = CondsBuilt(Fresh).branch_conds_fwd
          /\ self.branch_conds_bwd = CondsBuilt(Fresh).branch_conds_bwd
    /\ self.initialized_morph =>
          \A i \in 1..Len(MorphAttrs) :
              LET k == MorphAttrs[i] IN self[k] = MorphBuilt(Fresh)[k]

C4_SummedExactly ==
    (IsTree /\ ncalls = 1) =>
        LET old == Fresh.summed_coupling_conds
            new == self.summed_coupling_conds
            bwd == self.branch_conds_bwd
            fwd == self.branch_conds_fwd
            last == self.nseg - 1
        IN  /\ \A b \in 0..(self.nbranches - 1) :
                   Children(b) # {} =>
                       new[b][0] = Add(old[b][0], SumOver(Children(b), bwd))
            /\ \A b \in NonRoot : new[b][last] = Add(old[b][last], fwd[b])
            /\ \A b \in 0..(self.nbranches - 1), s \in 0..last :
                   (~(s = 0 /\ Children(b) # {}) /\ ~(s = last /\ b # 0)) =>
                       new[b][s] = old[b][s]

\* C4 (amended): after one init_branch_conds on a tree, every compartment
\* (b, s) holds its old value, plus the sum of the child->parent conductances
\* of all children of b if s is the first compartment, plus the parent->child
\* conductance of b if b is not the root and s is the last compartment; with
\* nseg = 1 the only compartment of a branch is both and gains both.
C4_SummedAdditively ==
    (IsTree /\ ncalls = 1) =>
        LET old == Fresh.summed_coupling_conds
            new == self.summed_coupling_conds
            bwd == self.branch_conds_bwd
            fwd == self.branch_conds_fwd
            last == self.nseg - 1
        IN  \A b \in 0..(self.nbranches - 1), s \in 0..last :
                new[b][s] =
                    Add(Add(old[b][s],
                            IF s = 0 THEN SumOver(Children(b), bwd) ELSE Zero),
                        IF s = last /\ b # 0 THEN fwd[b] ELSE Zero)

\* Two children with different conductances on one parent compartment.
C4_Witness ==
    /\ IsTree /\ ncalls = 1 /\ op = "init_branch_conds"
    /\ \E c \in NonRoot, d \in NonRoot :
           /\ c # d /\ self.parents[c] = self.parents[d]
           /\ self.branch_conds_bwd[c] # self.branch_conds_bwd[d]

\* ----------------------------------------------------------------------- C5
\* C5 (as claimed): for every non-root branch c of a tree with parent p, the
\* backward junction conductance is 10^7 * g(last of c -> first of p) and the
\* forward one is 10^7 * g(first of p -> last of c), radius_a, length_a and
\* r_a all being those of compartment a.
C5_JunctionsAsClaimed ==
    (IsTree /\ self.initialized_conds) =>
        \A c \in NonRoot :
            LET child == LastOf(c)
                par == FirstOf(self.parents[c])
            IN  /\ self.branch_conds_bwd[c] = Times10Pow(gFrom(child, par), 7)
                /\ self.branch_conds_fwd[c] = Times10Pow(gFrom(par, child), 7)

\* C5 (amended): for every non-root branch c of a tree with parent p, the
\* backward junction conductance is 10^7 * g(a -> b) with radius_a and
\* length_a those of the first compartment of p, b the last compartment of c
\* and r_a the axial resistivity of the last compartment of c; the forward
\* one is 10^7 * g(a -> b) with radius_a and length_a those of the last
\* compartment of c, b the first compartment of p and r_a the axial
\* resistivity of the first compartment of p.
C5_JunctionsAsComputed ==
    (IsTree /\ self.initialized_conds) =>
        \A c \in NonRoot :
            LET child == LastOf(c)
                par == FirstOf(self.parents[c])
            IN  /\ self.branch_conds_bwd[c] =
                       Times10Pow(g(par.radius, par.length, child.r_a,
                                    child.radius, child.length), 7)
                /\ self.branch_conds_fwd[c] =
                       Times10Pow(g(child.radius, child.length, par.r_a,
                                    par.radius, par.length), 7)

\* A junction whose two compartments differ in length.
C5_Witness ==
    /\ IsTree /\ self.initialized_conds /\ op = "init_branch_conds"
    /\ \E c \in NonRoot : LastOf(c).length # FirstOf(self.parents[c]).length

\* ----------------------------------------------------------------------- C6
\* C6 (as claimed): at every junction whose two compartments have the same
\* radius and the same length, the forward and backward junction
\* conductances are equal, whatever the other parameters.
C6_SymmetricForEqualGeometry ==
    self.initialized_conds =>
        \A c \in NonRoot :
            LET child == LastOf(c)
                par == FirstOf(self.parents[c])
            IN  (child.radius = par.radius /\ child.length = par.length) =>
                    self.branch_conds_fwd[c] = self.branch_conds_bwd[c]

\* C6 (amended): at every junction whose two compartments have the same
\* radius, the same length and the same axial resistivity, the forward and
\* backward junction conductances are equal.
C6_SymmetricForEqualCompartments ==
    self.initialized_conds =>
        \A c \in NonRoot :
            LET child == LastOf(c)
                par == FirstOf(self.parents[c])
            IN  (child.radius = par.radius /\ child.length = par.length
                     /\ child.r_a = par.r_a) =>
                    self.branch_conds_fwd[c] = self.branch_conds_bwd[c]

\* A junction of equal compartments in a cell whose geometry is not uniform.
C6_Witness ==
    /\ self.initialized_conds /\ op = "init_branch_conds"
    /\ ~Uniform(self.params, self.nbranches * self.nseg)
    /\ \E c \in NonRoot : LastOf(c) = FirstOf(self.parents[c])

C8_SolverOnlyAfterInit ==
    /\ solver.called =>
          /\ op = "step"
          /\ solver.morph /\ solver.conds
          /\ solver.args = {SolverArgs[i] : i \in 1..Len(SolverArgs)}
          /\ \A i \in 1..Len(MorphAttrs) :
                 LET k == MorphAttrs[i] IN self[k] = MorphBuilt(Fresh)[k]
          /\ DOMAIN self.branch_conds_fwd = 0..(self.nbranches - 1)
          /\ DOMAIN self.branch_conds_bwd = 0..(self.nbranches - 1)
    /\ (op = "step" /\ ~(pre.morph /\ pre.conds)) =>
          ~solver.called /\ outcome.status = "AssertionError"

\* A step that reached the solver on a cell with a junction.
C8_Witness == op = "step" /\ solver.called /\ self.nbranches >= 2

\* ----------------------------------------------------------------------- C9
\* C9: a step on a Cell whose morphology and conductances are initialized
\* changes none of the precomputed structures nor the two flags.
C9_StepReadsOnly ==
    [][ (op' = "step" /\ self.initialized_morph /\ self.initialized_conds) =>
            /\ self'.parents = self.parents
            /\ self'.levels = self.levels
            /\ self'.branches_in_each_level = self.branches_in_each_level
            /\ self'.parents_in_each_level = self.parents_in_each_level
            /\ self'.kid_inds_in_each_level = self.kid_inds_in_each_level
            /\ self'.coupling_conds_fwd = self.coupling_conds_fwd
            /\ self'.coupling_conds_bwd = self.coupling_conds_bwd
            /\ self'.summed_coupling_conds = self.summed_coupling_conds
            /\ self'.branch_conds_fwd = self.branch_conds_fwd
            /\ self'.branch_conds_bwd = self.branch_conds_bwd
            /\ self'.initialized_morph = self.initialized_morph
            /\ self'.initialized_conds = self.initialized_conds ]_vars

\* A successful step on an initialized cell with a junction.
C9_Witness ==
    /\ op = "step" /\ pre.morph /\ pre.conds /\ outcome.status = "ok"
    /\ self.nbranches >= 2

\* ---------------------------------------------------------------------- C10
\* C10: once initialized_conds is True, branch_conds_fwd and branch_conds_bwd
\* have nbranches entries each, entry 0 is zero in both, and entry b >= 1 is
\* the conductance of the junction of branch b with parents[b], after any
\* sequence of init_branch_conds and step calls.
C10_PaddedJunctionArrays ==
    self.initialized_conds =>
        /\ DOMAIN self.branch_conds_fwd = 0..(self.nbranches - 1)
        /\ DOMAIN self.branch_conds_bwd = 0..(self.nbranches - 1)
        /\ self.branch_conds_fwd[0] = Zero
        /\ self.branch_conds_bwd[0] = Zero
        /\ \A b \in NonRoot :
               LET child == LastOf(b)
                   par == FirstOf(self.parents[b])
               IN  /\ self.branch_conds_fwd[b] =
                          Times10Pow(g(child.radius, child.length, par.r_a,
                                       par.radius, par.length), 7)
                   /\ self.branch_conds_bwd[b] =
                          Times10Pow(g(par.radius, par.length, child.r_a,
                                       child.radius, child.length), 7)

\* The arrays after a repeated init_branch_conds and a step, on a cell whose
\* junctions do not all have the same conductance.
C10_Witness ==
    /\ self.initialized_conds /\ ncalls >= 2 /\ op = "step"
    /\ \E b \in NonRoot, c \in NonRoot :
           self.branch_conds_fwd[b] # self.branch_conds_fwd[c]

=============================================================================
